---- MODULE Spec2Model ----
(***************************************************************************)
(* A model of the two interactive utilities of the repository:            *)
(*   - the QR code generator (src/qrcode_generator.cpp): the State        *)
(*     record, the lazy redraw flag and the key dispatch chain of main;   *)
(*   - the camera QR detector (src/unnamed/part_000): command line        *)
(*     handling, the raw terminal guard, the signal flag, the exit key    *)
(*     matcher, the main loop with its cleanup, and the latency average   *)
(*     of FpsStats.                                                       *)
(* Characters and key codes are integers (their ASCII / X11 codes); a     *)
(* payload is a sequence of character codes.                              *)
(***************************************************************************)
EXTENDS Integers, Sequences, FiniteSets, TLC

VARIABLES
    s,            \* generator: the State record of main
    needRedraw,   \* generator: the redraw flag of main
    gpc,          \* generator: "loop" while the for(;;) runs, "done" after return
    last,         \* generator: the key polled last, the branch it took, the
                  \*   payload before it and the renders made up to it
    nKeys,        \* generator: number of key events polled so far
    shown,        \* generator: what the window shows
    files,        \* generator: the paths of the files written by imwrite
    dpc,          \* detector: position of main
    argv,         \* detector: the command line arguments after the program name
    camOK,        \* detector: the camera indices that can be opened
    requestedIndex, \* detector: int requestedIndex of main
    cap,          \* detector: the index cv::VideoCapture cap holds open, or -1
    term,         \* detector: the terminal, with orig_termios and term_raw_enabled
    g_signal_exit, \* detector: volatile sig_atomic_t g_signal_exit
    handlers,     \* detector: the signals whose disposition is handleSignal
    pending,      \* detector: the bytes waiting on standard input
    frames,       \* detector: number of frames read so far
    windowOpen,   \* detector: whether the "QR Detect" window exists
    exitCode,     \* detector: the exit status of the process, -1 while it runs
    chk,          \* detector: the inputs and the result of the last exitRequested
    loopExit,     \* detector: the branch that ended the main loop, or "none"
    obs,          \* detector: counts of signals delivered, bytes typed, frames
                  \*   displayed and releases, and the frames read and displayed
                  \*   when the signal flag was set
    calls,        \* terminal helpers: the calls made so far, in order
    probe,        \* exit key matcher: the key probed last and the answer
    stats         \* timing helpers: FpsStats::avgMs and the last frame latency

gvars == <<s, needRedraw, gpc, last, nKeys, shown, files>>
dvars == <<dpc, argv, camOK, requestedIndex, cap, term, g_signal_exit, handlers,
           pending, frames, windowOpen, exitCode, chk, loopExit, obs>>
dvarsButTerm == <<dpc, argv, camOK, requestedIndex, cap, g_signal_exit, handlers,
                  pending, frames, windowOpen, exitCode, chk, loopExit, obs>>
vars == <<s, needRedraw, gpc, last, nKeys, shown, files,
          dpc, argv, camOK, requestedIndex, cap, term, g_signal_exit, handlers,
          pending, frames, windowOpen, exitCode, chk, loopExit, obs, calls, probe,
          stats>>

(***************************************************************************)
(* Bounds of the model.                                                    *)
(***************************************************************************)
\* key events polled in one run of the generator
MaxKeys == 2
\* number of distinct pseudo-random streams rand() may produce
MaxSeed == 1
\* key events of one held key before a run of the generator is observed
HoldPresses == 64
\* length of the command line arguments enumerated over ArgChars
MaxArgLen == 1
\* frames the camera delivers in one run of the detector
MaxFrames == 3
\* signals delivered to one run of the detector
MaxSignals == 2
\* bytes typed at the terminal in one run of the detector
MaxTyped == 2
\* calls of the terminal helpers in one sequence of calls
MaxCalls == 3
\* the exit key matcher is probed on -MaxProbe .. MaxProbe and on the
\* extended codes 0xFF00 .. 0xFFFF
MaxProbe == 600
\* frame latencies are 0 .. MaxMs (in units of one millisecond)
MaxMs == 60
\* calls of FpsStats::updateAvgMs in one sequence of frames
MaxUpdates == 2

(***************************************************************************)
(* Generator (src/qrcode_generator.cpp)                                    *)
(***************************************************************************)
clampi_noclamp(v, lo, hi) == v

clampi_wrap(v, lo, hi) == IF v < lo THEN hi ELSE (IF v > hi THEN lo ELSE v)

\* static inline int clampi(int v, int lo, int hi)
clampi(v, lo, hi) == IF v < lo THEN lo ELSE (IF v > hi THEN hi ELSE v)

\* "Hello, QR!"
HelloText == <<72, 101, 108, 108, 111, 44, 32, 81, 82, 33>>

\* State::State()
DefaultState ==
    [text |-> HelloText, version |-> 0, eclIdx |-> 1, scale |-> 15,
     quietZone |-> 7, showHelp |-> FALSE, defaultOut |-> ""]

\* static const char* names[] = {"L","M","Q","H"}; return names[clampi(idx,0,3)]
eclName(idx) == <<"L", "M", "Q", "H">>[clampi(idx, 0, 3) + 1]

\* "0123456789ABCDEFGHIJKLMNOPQRSTUVWXYZabcdefghijklmnopqrstuvwxyz"
alnum == [i \in 1..62 |-> IF i <= 10 THEN 47 + i
                          ELSE IF i <= 36 THEN 54 + i ELSE 60 + i]

\* the values rand() returns, one stream per seed: the k-th call returns seed + k
rand(seed, k) == seed + k

\* randomText(): len = 12 + rand() % 13, then len characters alnum[rand() % 62]
randomText(seed) ==
    LET len == 12 + (rand(seed, 0) % 13)
    IN  [i \in 1..len |-> alnum[(rand(seed, i) % 62) + 1]]

autoFileName_fixed(st) == "qrcode.png"

\* format("qrcode_v%d_ecl%s_sc%d_qz%d.png", s.version, eclName(s.eclIdx).c_str(),
\*        s.scale, s.quietZone): %d prints the decimal digits of an int
autoFileName(st) ==
    "qrcode_v" \o ToString(st.version) \o "_ecl" \o eclName(st.eclIdx)
    \o "_sc" \o ToString(st.scale) \o "_qz" \o ToString(st.quietZone) \o ".png"

\* a path given with -o / --output, used as it is
FixedPath(name) == name

renderQR_noempty(st, encOk) ==
    IF ~encOk THEN [kind |-> "gray", enc |-> TRUE]
    ELSE [kind |-> "qr", enc |-> TRUE]

renderQR_nonull(st, encOk) ==
    IF st.text = <<>> THEN [kind |-> "blank", enc |-> FALSE]
    ELSE [kind |-> "qr", enc |-> TRUE]

\* renderQR(s): the blank placeholder, the gray placeholder or the QR image;
\* encOk is the outcome of QRcode_encodeString (non-null or null), and enc
\* tells whether QRcode_encodeString was called
renderQR(st, encOk) ==
    IF st.text = <<>> THEN [kind |-> "blank", enc |-> FALSE]
    ELSE IF ~encOk THEN [kind |-> "gray", enc |-> TRUE]
    ELSE [kind |-> "qr", enc |-> TRUE]

Display_cached(st, encOk, via, old) ==
    LET r == renderQR(st, encOk)
    IN  IF old.n = 0
          THEN [kind |-> r.kind, enc |-> r.enc, failed |-> (st.text # <<>> /\ ~encOk),
                of |-> st, via |-> via, n |-> 1, prev |-> old.kind]
          ELSE [old EXCEPT !.via = via, !.n = @ + 1, !.prev = old.kind]

\* the window before the first imshow
NoShow ==
    [kind |-> "nothing", enc |-> FALSE, failed |-> FALSE, of |-> DefaultState,
     via |-> "none", n |-> 0, prev |-> "nothing"]

\* Mat qr = renderQR(s); ... imshow(kWin, canvas): what the window shows after
\* the render of st on the path via ("redraw" or "save"), old being what it
\* showed before.  failed: the encoder was called and returned null;
\* n: the renders so far;  prev: the kind of the render shown before
Display(st, encOk, via, old) ==
    LET r == renderQR(st, encOk)
    IN  [kind |-> r.kind, enc |-> r.enc, failed |-> (st.text # <<>> /\ ~encOk),
         of |-> st, via |-> via, n |-> old.n + 1, prev |-> old.kind]

\* int ch = key & 0xFF
normalize_nomask(key) == key

normalize_low7(key) == key % 128

normalize(key) == key % 256

QuitKeys == {27, 113, 81}
HelpKeys == {104, 72}
RandomKeys == {114, 82}
ClearKeys == {99, 67}
ScaleUpKeys == {43, 61}
ScaleDownKeys == {45, 95}
QuietDownKeys == {91, 123}
QuietUpKeys == {93, 125}
EclDownKeys == {101}
EclUpKeys == {69}
VersionDownKeys == {118}
VersionUpKeys == {86}
SaveKeys == {115, 83}
BackspaceKeys == {8, 127}
Printable == 32..126

\* every normalized code one of the branches before the append branch takes
CommandKeys ==
    QuitKeys \cup HelpKeys \cup RandomKeys \cup ClearKeys \cup ScaleUpKeys
    \cup ScaleDownKeys \cup QuietDownKeys \cup QuietUpKeys \cup EclDownKeys
    \cup EclUpKeys \cup VersionDownKeys \cup VersionUpKeys \cup SaveKeys

Outcome_noflag(st, nr, act, exit, save) ==
    [s |-> st, needRedraw |-> FALSE, act |-> act, exit |-> exit, save |-> save]

Outcome_quietpop(st, nr, act, exit, save) ==
    [s |-> st, needRedraw |-> (nr /\ act # "backspace"), act |-> act,
     exit |-> exit, save |-> save]

Outcome_fallthrough(st, nr, act, exit, save) ==
    [s |-> IF act = "version+" THEN [st EXCEPT !.text = Append(@, 86)] ELSE st,
     needRedraw |-> nr, act |-> act, exit |-> exit, save |-> save]

\* the result of one pass through the dispatch chain
Outcome(st, nr, act, exit, save) ==
    [s |-> st, needRedraw |-> nr, act |-> act, exit |-> exit, save |-> save]

\* the chain of if statements of main, in source order, for a key >= 0
Dispatch(st, nr, ch, seed) ==
    IF ch \in QuitKeys THEN Outcome(st, nr, "quit", TRUE, FALSE)
    ELSE IF ch \in HelpKeys
      THEN Outcome([st EXCEPT !.showHelp = ~@], TRUE, "help", FALSE, FALSE)
    ELSE IF ch \in RandomKeys
      THEN Outcome([st EXCEPT !.text = randomText(seed)], TRUE, "random", FALSE, FALSE)
    ELSE IF ch \in ClearKeys
      THEN Outcome([st EXCEPT !.text = <<>>], TRUE, "clear", FALSE, FALSE)
    ELSE IF ch \in ScaleUpKeys
      THEN Outcome([st EXCEPT !.scale = clampi(@ + 1, 1, 64)], TRUE, "scale+", FALSE, FALSE)
    ELSE IF ch \in ScaleDownKeys
      THEN Outcome([st EXCEPT !.scale = clampi(@ - 1, 1, 64)], TRUE, "scale-", FALSE, FALSE)
    ELSE IF ch \in QuietDownKeys
      THEN Outcome([st EXCEPT !.quietZone = clampi(@ - 1, 0, 16)], TRUE, "quiet-", FALSE, FALSE)
    ELSE IF ch \in QuietUpKeys
      THEN Outcome([st EXCEPT !.quietZone = clampi(@ + 1, 0, 16)], TRUE, "quiet+", FALSE, FALSE)
    ELSE IF ch \in EclDownKeys
      THEN Outcome([st EXCEPT !.eclIdx = clampi(@ - 1, 0, 3)], TRUE, "ecl-", FALSE, FALSE)
    ELSE IF ch \in EclUpKeys
      THEN Outcome([st EXCEPT !.eclIdx = clampi(@ + 1, 0, 3)], TRUE, "ecl+", FALSE, FALSE)
    ELSE IF ch \in VersionDownKeys
      THEN Outcome([st EXCEPT !.version = clampi(@ - 1, 0, 40)], TRUE, "version-", FALSE, FALSE)
    ELSE IF ch \in VersionUpKeys
      THEN Outcome([st EXCEPT !.version = clampi(@ + 1, 0, 40)], TRUE, "version+", FALSE, FALSE)
    ELSE IF ch \in SaveKeys THEN Outcome(st, nr, "save", FALSE, TRUE)
    ELSE IF ch \in Printable
      THEN Outcome([st EXCEPT !.text = Append(@, ch)], TRUE, "append", FALSE, FALSE)
    ELSE IF ch \in BackspaceKeys
      THEN IF st.text # <<>>
             THEN Outcome([st EXCEPT !.text = SubSeq(@, 1, Len(@) - 1)], TRUE,
                          "backspace", FALSE, FALSE)
             ELSE Outcome(st, nr, "backspace", FALSE, FALSE)
    ELSE Outcome(st, nr, "none", FALSE, FALSE)

\* the key codes waitKeyEx is taken to return: every command key, text
\* characters, backspace and delete, codes no branch takes, extended codes
\* above 255 (0xFF51, 0xFF52, 0xFF08, 0xFFE1, 0x10041) and "no key" (-1)
TextKeys == {32, 97, 126}
OtherKeys == {0, 13, 31, 128, 255}
ExtendedKeys == {65361, 65362, 65288, 65505, 65601}
GenKeys ==
    CommandKeys \cup TextKeys \cup BackspaceKeys \cup OtherKeys \cup ExtendedKeys
    \cup {-1}

\* the payloads the program starts with: the default, or the -t argument
StartTexts == {HelloText, <<>>, <<97>>}

\* the save paths the program starts with: none, or the -o argument
StartOuts == {"", "out.png"}

\* the State after the key ch was held for n key events (n passes through
\* the dispatch chain, each with a redraw before the next); a key that ends
\* the loop is not repeated
RECURSIVE Hold(_, _, _)
Hold(st, ch, n) ==
    IF n = 0 THEN st
    ELSE LET o == Dispatch(st, FALSE, ch, 0)
         IN  IF o.exit THEN st ELSE Hold(o.s, ch, n - 1)

\* the States a run is observed from: the State main constructs, and the
\* States reached from it by holding the four "increase" keys ('+', ']',
\* 'V', 'E') and the four "decrease" keys ('-', '[', 'v', 'e')
StartStates ==
    { DefaultState,
      Hold(Hold(Hold(Hold(DefaultState, 43, HoldPresses), 93, HoldPresses),
                86, HoldPresses), 69, HoldPresses),
      Hold(Hold(Hold(Hold(DefaultState, 45, HoldPresses), 91, HoldPresses),
                118, HoldPresses), 101, HoldPresses) }

GenInit ==
    /\ \E t \in StartTexts, o \in StartOuts, p \in StartStates :
          s = [p EXCEPT !.text = t, !.defaultOut = o]
    /\ needRedraw = TRUE
    /\ gpc = "loop"
    /\ last = [key |-> -1, act |-> "start", before |-> <<>>, renders |-> 0]
    /\ nKeys = 0
    /\ shown = NoShow
    /\ files = {}

\* if (needRedraw) { Mat qr = renderQR(s); ... imshow(kWin, canvas); needRedraw = false; }
Redraw ==
    /\ gpc = "loop"
    /\ needRedraw
    /\ \E encOk \in BOOLEAN : shown' = Display(s, encOk, "redraw", shown)
    /\ needRedraw' = FALSE
    /\ UNCHANGED <<s, gpc, last, nKeys, files>>
    /\ UNCHANGED <<dvars, calls, probe, stats>>

\* int key = waitKeyEx(0); if (key < 0) continue;
IdlePoll ==
    /\ gpc = "loop"
    /\ ~needRedraw
    /\ nKeys < MaxKeys
    /\ \E key \in {k \in GenKeys : k < 0} :
          last' = [key |-> key, act |-> "idle", before |-> s.text,
                   renders |-> shown.n]
    /\ nKeys' = nKeys + 1
    /\ UNCHANGED <<s, needRedraw, gpc, shown, files>>
    /\ UNCHANGED <<dvars, calls, probe, stats>>

\* int key = waitKeyEx(0); int ch = key & 0xFF; ... the dispatch chain.
\* rand() is called in the random branch only and the encoder in the save
\* branch only, so their outcomes are drawn for those keys only
KeyEvent ==
    /\ gpc = "loop"
    /\ ~needRedraw
    /\ nKeys < MaxKeys
    /\ \E key \in {k \in GenKeys : k >= 0} :
       \E seed \in (IF normalize(key) \in RandomKeys THEN 0..MaxSeed ELSE {0}),
          encOk \in (IF normalize(key) \in SaveKeys THEN BOOLEAN ELSE {TRUE}) :
          LET o == Dispatch(s, needRedraw, normalize(key), seed)
              path == IF s.defaultOut = "" THEN autoFileName(s)
                      ELSE FixedPath(s.defaultOut)
          IN  /\ s' = o.s
              /\ needRedraw' = o.needRedraw
              /\ gpc' = IF o.exit THEN "done" ELSE "loop"
              /\ last' = [key |-> key, act |-> o.act, before |-> s.text,
                           renders |-> IF o.save THEN shown.n + 1 ELSE shown.n]
              /\ files' = IF o.save THEN files \cup {path} ELSE files
              /\ shown' = IF o.save THEN Display(s, encOk, "save", shown) ELSE shown
    /\ nKeys' = nKeys + 1
    /\ UNCHANGED <<dvars, calls, probe, stats>>

GenNext == Redraw \/ IdlePoll \/ KeyEvent

(***************************************************************************)
(* Detector (src/unnamed/part_000)                                         *)
(***************************************************************************)
\* ---- terminal helpers ----
\* the local flags of a termios the model tells apart
LFlags == {"ICANON", "ECHO", "ISIG"}

\* a terminal with the statics of the terminal helpers:
\*   lflag, nonblock: the c_lflag of the terminal and O_NONBLOCK of fd 0
\*   isatty: whether fd 0 is a terminal (tcgetattr and tcsetattr fail otherwise)
\*   orig_termios, term_raw_enabled: the two statics
\*   initial: the c_lflag the terminal had when the process started
Terminal(lflag, nonblock, isatty) ==
    [lflag |-> lflag, nonblock |-> nonblock, isatty |-> isatty,
     orig_termios |-> {}, term_raw_enabled |-> FALSE, initial |-> lflag]

enableRawTerminal_noguard(t) ==
    LET saved == IF t.isatty THEN t.lflag ELSE t.orig_termios
    IN  [t EXCEPT !.orig_termios = saved,
                  !.lflag = IF t.isatty THEN saved \ {"ICANON", "ECHO"} ELSE @,
                  !.nonblock = TRUE,
                  !.term_raw_enabled = TRUE]

\* void enableRawTerminal()
enableRawTerminal(t) ==
    IF t.term_raw_enabled THEN t
    ELSE LET saved == IF t.isatty THEN t.lflag ELSE t.orig_termios
         IN  [t EXCEPT !.orig_termios = saved,
                       !.lflag = IF t.isatty THEN saved \ {"ICANON", "ECHO"} ELSE @,
                       !.nonblock = TRUE,
                       !.term_raw_enabled = TRUE]

\* void disableRawTerminal()
disableRawTerminal(t) ==
    IF ~t.term_raw_enabled THEN t
    ELSE [t EXCEPT !.lflag = IF t.isatty THEN t.orig_termios ELSE @,
                   !.nonblock = FALSE,
                   !.term_raw_enabled = FALSE]

\* bool stdinKeyPressed(int& ch): read(STDIN_FILENO, &c, 1) on the pending bytes
stdinKeyPressed(pend) ==
    IF pend # <<>> THEN [ok |-> TRUE, ch |-> Head(pend), rest |-> Tail(pend)]
    ELSE [ok |-> FALSE, ch |-> -1, rest |-> pend]

\* TerminalRawGuard() { enableRawTerminal(); }
TerminalRawGuard_ctor(t) == enableRawTerminal(t)

TerminalRawGuard_dtor_none(t) == t

\* ~TerminalRawGuard() { disableRawTerminal(); }
TerminalRawGuard_dtor(t) == disableRawTerminal(t)

\* ---- exit keys and the signal flag ----
\* the case labels of isExitKey
ExitKeySet == {27, 113, 81, 120, 88, 99, 67, 3, 4, 17, 24}

isExitKey_masked(k) == (k % 256) \in ExitKeySet

\* static inline bool isExitKey(int k)
isExitKey(k) ==
    IF k < 0 THEN FALSE
    ELSE IF k > 255 THEN FALSE
    ELSE k \in ExitKeySet

handleSignal_toggle(flag) == 1 - flag

\* void handleSignal(int) { g_signal_exit = 1; }
handleSignal(flag) == 1

exitRequested_nosignal(windowKey, pend, flag) ==
    IF isExitKey(windowKey)
      THEN [result |-> TRUE, pending |-> pend, why |-> "key"]
    ELSE LET r == stdinKeyPressed(pend)
         IN  IF r.ok /\ isExitKey(r.ch)
               THEN [result |-> TRUE, pending |-> r.rest, why |-> "byte"]
               ELSE [result |-> FALSE, pending |-> r.rest, why |-> "none"]

exitRequested_byteFirst(windowKey, pend, flag) ==
    IF isExitKey(windowKey)
      THEN [result |-> TRUE, pending |-> pend, why |-> "key"]
    ELSE LET r == stdinKeyPressed(pend)
         IN  IF r.ok
               THEN IF isExitKey(r.ch)
                      THEN [result |-> TRUE, pending |-> r.rest, why |-> "byte"]
                      ELSE [result |-> FALSE, pending |-> r.rest, why |-> "none"]
             ELSE IF flag # 0
               THEN [result |-> TRUE, pending |-> r.rest, why |-> "signal"]
             ELSE [result |-> FALSE, pending |-> r.rest, why |-> "none"]

\* static inline bool exitRequested(int windowKey): the result, the bytes left
\* on standard input, and the branch that returned
exitRequested(windowKey, pend, flag) ==
    IF isExitKey(windowKey)
      THEN [result |-> TRUE, pending |-> pend, why |-> "key"]
    ELSE LET r == stdinKeyPressed(pend)
         IN  IF r.ok /\ isExitKey(r.ch)
               THEN [result |-> TRUE, pending |-> r.rest, why |-> "byte"]
             ELSE IF flag # 0
               THEN [result |-> TRUE, pending |-> r.rest, why |-> "signal"]
             ELSE [result |-> FALSE, pending |-> r.rest, why |-> "none"]

\* ---- command line ----
\* "--list"
ListArg == <<45, 45, 108, 105, 115, 116>>

\* std::isdigit(c)
isdigit(c) == c \in 48..57

\* INT_MAX of the platform (a 32 bit int)
IntMax == 2147483647

\* std::stoi(arg) on a string of digits: the value, or std::out_of_range
\* thrown when the value does not fit an int (digit by digit, so that no
\* intermediate value exceeds IntMax)
RECURSIVE stoi(_)
stoi(str) ==
    IF str = <<>> THEN [thrown |-> FALSE, value |-> 0]
    ELSE LET r == stoi(SubSeq(str, 1, Len(str) - 1))
             d == str[Len(str)] - 48
         IN  IF r.thrown \/ r.value > (IntMax - d) \div 10
               THEN [thrown |-> TRUE, value |-> 0]
               ELSE [thrown |-> FALSE, value |-> 10 * r.value + d]

\* lines 145-165 of main: what the argument handling decides.
\*   "list": --list, return 0      "exit2": return 2
\*   "abort": std::out_of_range leaves main, std::terminate aborts the process
\*   "ok": go on with requestedIndex = index
ParseArgs(av) ==
    IF Len(av) >= 1 /\ av[1] = ListArg THEN [outcome |-> "list", index |-> -1]
    ELSE IF Len(av) >= 1
      THEN LET arg == av[1]
               numeric == arg # <<>> /\ \A i \in 1..Len(arg) : isdigit(arg[i])
           IN  IF ~numeric THEN [outcome |-> "exit2", index |-> -1]
               ELSE IF stoi(arg).thrown THEN [outcome |-> "abort", index |-> -1]
               ELSE IF stoi(arg).value < 0 \/ stoi(arg).value > 1
                 THEN [outcome |-> "exit2", index |-> stoi(arg).value]
               ELSE [outcome |-> "ok", index |-> stoi(arg).value]
    ELSE [outcome |-> "ok", index |-> -1]

\* static bool tryOpenCamera(int index, ...)
tryOpenCamera(index, cams) == index \in cams

\* lines 167-190 of main: the camera opened, or the exit code
OpenCameras(req, cams) ==
    IF req >= 0
      THEN IF ~tryOpenCamera(req, cams) THEN [ok |-> FALSE, cap |-> -1, code |-> 3]
           ELSE [ok |-> TRUE, cap |-> req, code |-> -1]
    ELSE IF tryOpenCamera(0, cams) THEN [ok |-> TRUE, cap |-> 0, code |-> -1]
    ELSE IF tryOpenCamera(1, cams) THEN [ok |-> TRUE, cap |-> 1, code |-> -1]
    ELSE [ok |-> FALSE, cap |-> -1, code |-> 1]

\* ---- the inputs of a run ----
RECURSIVE StringsUpTo(_, _)
StringsUpTo(chars, n) ==
    IF n = 0 THEN {<<>>}
    ELSE LET shorter == StringsUpTo(chars, n - 1)
         IN  shorter \cup {Append(w, c) : w \in shorter, c \in chars}

\* '0', '1', '2', '-', 'x'
ArgChars == {48, 49, 50, 45, 120}

\* "00", "01", "10", "2147483647", "2147483648", "99999999999"
LongArgs ==
    { <<48, 48>>, <<48, 49>>, <<49, 48>>,
      <<50, 49, 52, 55, 52, 56, 51, 54, 52, 55>>,
      <<50, 49, 52, 55, 52, 56, 51, 54, 52, 56>>,
      <<57, 57, 57, 57, 57, 57, 57, 57, 57, 57, 57>> }

\* the first argument of a run that has one
Args == StringsUpTo(ArgChars, MaxArgLen) \cup LongArgs \cup {ListArg}

\* the codes waitKey(1) is taken to return: none, 'q', 'a', Ctrl-C, 0xFF51
DetKeys == {-1, 113, 97, 3, 65361}

\* the bytes typed at the terminal: 'x', 'a'
StdinBytes == {120, 97}

Signals == {"SIGINT", "SIGTERM", "SIGHUP"}

\* the terminals a run of the detector starts on: a terminal in its usual
\* mode, and a terminal with echo off
StartTerminals ==
    { Terminal(LFlags, FALSE, TRUE), Terminal({"ICANON", "ISIG"}, FALSE, TRUE) }

Terminated == {"done", "killed", "aborted"}

NoCheck == [win |-> -1, head |-> -1, flag |-> 0, result |-> FALSE, n |-> 0]

NoObs == [sigs |-> 0, typed |-> 0, acquired |-> 0, released |-> 0,
          capReleased |-> 0, destroyed |-> 0, shows |-> 0,
          sigFrames |-> -1, sigShows |-> -1]

DetInit ==
    /\ dpc = "start"
    /\ argv \in {<<>>} \cup {<<a>> : a \in Args}
    /\ camOK \in SUBSET {0, 1}
    /\ requestedIndex = -1
    /\ cap = -1
    /\ term \in StartTerminals
    /\ g_signal_exit = 0
    /\ handlers = {}
    /\ pending = <<>>
    /\ frames = 0
    /\ windowOpen = FALSE
    /\ exitCode = -1
    /\ chk = NoCheck
    /\ loopExit = "none"
    /\ obs = NoObs

\* lines 143-165 of main
DetParse ==
    /\ dpc = "start"
    /\ LET r == ParseArgs(argv)
       IN  /\ requestedIndex' = r.index
           /\ dpc' = CASE r.outcome = "ok" -> "open"
                       [] r.outcome = "abort" -> "aborted"
                       [] OTHER -> "done"
           /\ exitCode' = CASE r.outcome = "list" -> 0
                            [] r.outcome = "exit2" -> 2
                            [] r.outcome = "abort" -> 134
                            [] OTHER -> exitCode
    /\ UNCHANGED <<argv, camOK, cap, term, g_signal_exit, handlers, pending, frames,
                   windowOpen, chk, loopExit, obs>>
    /\ UNCHANGED <<gvars, calls, probe, stats>>

\* lines 167-190 of main
DetOpen ==
    /\ dpc = "open"
    /\ LET r == OpenCameras(requestedIndex, camOK)
       IN  /\ cap' = r.cap
           /\ dpc' = IF r.ok THEN "guard" ELSE "done"
           /\ exitCode' = IF r.ok THEN exitCode ELSE r.code
    /\ UNCHANGED <<argv, camOK, requestedIndex, term, g_signal_exit, handlers, pending,
                   frames, windowOpen, chk, loopExit, obs>>
    /\ UNCHANGED <<gvars, calls, probe, stats>>

\* line 198 of main: TerminalRawGuard terminalGuard;
DetGuard ==
    /\ dpc = "guard"
    /\ term' = TerminalRawGuard_ctor(term)
    /\ obs' = [obs EXCEPT !.acquired = @ + 1]
    /\ dpc' = "sigint"
    /\ UNCHANGED <<argv, camOK, requestedIndex, cap, g_signal_exit, handlers, pending,
                   frames, windowOpen, exitCode, chk, loopExit>>
    /\ UNCHANGED <<gvars, calls, probe, stats>>

\* lines 201-203 of main: signal(SIGINT, ...); signal(SIGTERM, ...); signal(SIGHUP, ...)
DetInstall ==
    /\ dpc \in {"sigint", "sigterm", "sighup"}
    /\ handlers' = handlers \cup {CASE dpc = "sigint" -> "SIGINT"
                                    [] dpc = "sigterm" -> "SIGTERM"
                                    [] OTHER -> "SIGHUP"}
    /\ dpc' = CASE dpc = "sigint" -> "sigterm"
                [] dpc = "sigterm" -> "sighup"
                [] OTHER -> "read"
    /\ UNCHANGED <<argv, camOK, requestedIndex, cap, term, g_signal_exit, pending,
                   frames, windowOpen, exitCode, chk, loopExit, obs>>
    /\ UNCHANGED <<gvars, calls, probe, stats>>

\* line 210 of main: if (!cap.read(frame) || frame.empty()) break;
DetRead ==
    /\ dpc = "read"
    /\ \E ok \in {b \in BOOLEAN : b => frames < MaxFrames} :
          /\ frames' = IF ok THEN frames + 1 ELSE frames
          /\ dpc' = IF ok THEN "show" ELSE "release"
          /\ loopExit' = IF ok THEN loopExit ELSE "frame"
    /\ UNCHANGED <<argv, camOK, requestedIndex, cap, term, g_signal_exit, handlers,
                   pending, windowOpen, exitCode, chk, obs>>
    /\ UNCHANGED <<gvars, calls, probe, stats>>

\* lines 212-235 of main: detect, draw, imshow (which creates the window);
\* the statistics drawn on the frame (updateAvgMs, tickFps) decide nothing
\* of the loop and are applied in FpsSpec
DetShow ==
    /\ dpc = "show"
    /\ windowOpen' = TRUE
    /\ obs' = [obs EXCEPT !.shows = @ + 1]
    /\ dpc' = "poll"
    /\ UNCHANGED <<argv, camOK, requestedIndex, cap, term, g_signal_exit, handlers,
                   pending, frames, exitCode, chk, loopExit>>
    /\ UNCHANGED <<gvars, calls, probe, stats>>

\* lines 236-237 of main: int key = cv::waitKey(1); if (exitRequested(key)) break;
DetPoll ==
    /\ dpc = "poll"
    /\ \E key \in DetKeys :
          LET r == exitRequested(key, pending, g_signal_exit)
          IN  /\ chk' = [win |-> key,
                         head |-> IF pending = <<>> THEN -1 ELSE Head(pending),
                         flag |-> g_signal_exit, result |-> r.result, n |-> 1]
              /\ pending' = r.pending
              /\ loopExit' = IF r.result THEN r.why ELSE loopExit
              /\ dpc' = IF r.result THEN "release" ELSE "read"
    /\ UNCHANGED <<argv, camOK, requestedIndex, cap, term, g_signal_exit, handlers,
                   frames, windowOpen, exitCode, obs>>
    /\ UNCHANGED <<gvars, calls, probe, stats>>

\* line 241 of main: cap.release();
DetRelease ==
    /\ dpc = "release"
    /\ cap' = -1
    /\ obs' = [obs EXCEPT !.capReleased = @ + 1]
    /\ dpc' = "destroy"
    /\ UNCHANGED <<argv, camOK, requestedIndex, term, g_signal_exit, handlers, pending,
                   frames, windowOpen, exitCode, chk, loopExit>>
    /\ UNCHANGED <<gvars, calls, probe, stats>>

\* line 242 of main: cv::destroyAllWindows();
DetDestroy ==
    /\ dpc = "destroy"
    /\ windowOpen' = FALSE
    /\ obs' = [obs EXCEPT !.destroyed = @ + 1]
    /\ dpc' = "return"
    /\ UNCHANGED <<argv, camOK, requestedIndex, cap, term, g_signal_exit, handlers,
                   pending, frames, exitCode, chk, loopExit>>
    /\ UNCHANGED <<gvars, calls, probe, stats>>

\* line 243 of main: return 0; the destructors of the locals run, that of
\* terminalGuard among them
DetReturn ==
    /\ dpc = "return"
    /\ term' = TerminalRawGuard_dtor(term)
    /\ obs' = [obs EXCEPT !.released = @ + 1]
    /\ exitCode' = 0
    /\ dpc' = "done"
    /\ UNCHANGED <<argv, camOK, requestedIndex, cap, g_signal_exit, handlers, pending,
                   frames, windowOpen, chk, loopExit>>
    /\ UNCHANGED <<gvars, calls, probe, stats>>

\* a signal is delivered to the process: handleSignal runs when it is the
\* signal's disposition (signal() of glibc keeps the handler installed);
\* the default disposition of all three ends the process at once, and no
\* destructor runs
DetSignal ==
    /\ dpc \notin Terminated
    /\ obs.sigs < MaxSignals
    /\ \E sig \in Signals :
          IF sig \in handlers
            THEN /\ g_signal_exit' = handleSignal(g_signal_exit)
                 /\ dpc' = dpc
                 /\ obs' = IF g_signal_exit = 0
                             THEN [obs EXCEPT !.sigs = @ + 1, !.sigFrames = frames,
                                              !.sigShows = obs.shows]
                             ELSE [obs EXCEPT !.sigs = @ + 1]
            ELSE /\ g_signal_exit' = g_signal_exit
                 /\ dpc' = "killed"
                 /\ obs' = [obs EXCEPT !.sigs = @ + 1]
    /\ UNCHANGED <<argv, camOK, requestedIndex, cap, term, handlers, pending, frames,
                   windowOpen, exitCode, chk, loopExit>>
    /\ UNCHANGED <<gvars, calls, probe, stats>>

\* the user types a byte at the terminal
DetType ==
    /\ dpc \notin Terminated
    /\ obs.typed < MaxTyped
    /\ \E b \in StdinBytes : pending' = Append(pending, b)
    /\ obs' = [obs EXCEPT !.typed = @ + 1]
    /\ UNCHANGED <<dpc, argv, camOK, requestedIndex, cap, term, g_signal_exit, handlers,
                   frames, windowOpen, exitCode, chk, loopExit>>
    /\ UNCHANGED <<gvars, calls, probe, stats>>

DetNext ==
    \/ DetParse \/ DetOpen \/ DetGuard \/ DetInstall \/ DetRead \/ DetShow
    \/ DetPoll \/ DetRelease \/ DetDestroy \/ DetReturn \/ DetSignal \/ DetType

(***************************************************************************)
(* The terminal helpers called in any order, and the exit key matcher      *)
(* applied to any key.                                                     *)
(***************************************************************************)
TermInit ==
    /\ term \in {Terminal(f, nb, TRUE) : f \in SUBSET LFlags, nb \in BOOLEAN}
                \cup {Terminal({}, nb, FALSE) : nb \in BOOLEAN}
    /\ calls = <<>>

CallEnable ==
    /\ Len(calls) < MaxCalls
    /\ term' = enableRawTerminal(term)
    /\ calls' = Append(calls, "enable")
    /\ UNCHANGED <<gvars, dvarsButTerm, probe, stats>>

CallDisable ==
    /\ Len(calls) < MaxCalls
    /\ term' = disableRawTerminal(term)
    /\ calls' = Append(calls, "disable")
    /\ UNCHANGED <<gvars, dvarsButTerm, probe, stats>>

ProbeKeys == (-MaxProbe .. MaxProbe) \cup (65280 .. 65535)

ProbeInit == probe = [key |-> -1, answer |-> FALSE, n |-> 0]

ProbeExitKey ==
    /\ probe.n = 0
    /\ \E k \in ProbeKeys : probe' = [key |-> k, answer |-> isExitKey(k), n |-> 1]
    /\ UNCHANGED <<gvars, dvars, calls, stats>>

(***************************************************************************)
(* The timing helper FpsStats::updateAvgMs applied to any sequence of      *)
(* frame latencies.  A double is modelled by the exact rational num / den  *)
(* it stands for: 0.98 is 98/100 and 0.02 is 2/100, and the rounding of    *)
(* the floating point operations is left out.                              *)
(***************************************************************************)
updateAvgMs_heavy(avgMs, frameMs) ==
    [num |-> 98 * avgMs.num + 20 * frameMs * avgMs.den, den |-> 100 * avgMs.den]

\* avgMs = 0.98 * avgMs + 0.02 * frameMs; return avgMs;
updateAvgMs(avgMs, frameMs) ==
    [num |-> 98 * avgMs.num + 2 * frameMs * avgMs.den, den |-> 100 * avgMs.den]

\* FpsStats stats;  (double avgMs = 0.0)
StatsInit == stats = [avgMs |-> [num |-> 0, den |-> 1], frameMs |-> 0, n |-> 0]

\* stats.updateAvgMs(dur) for a frame that took frameMs
UpdateAvgMs ==
    /\ stats.n < MaxUpdates
    /\ \E frameMs \in 0..MaxMs :
          stats' = [avgMs |-> updateAvgMs(stats.avgMs, frameMs),
                    frameMs |-> frameMs, n |-> stats.n + 1]
    /\ UNCHANGED <<gvars, dvars, calls, probe>>

(***************************************************************************)
(* Specifications                                                          *)
(***************************************************************************)
\* the generator at rest
GenIdle ==
    /\ s = DefaultState
    /\ needRedraw = TRUE
    /\ gpc = "loop"
    /\ last = [key |-> -1, act |-> "start", before |-> <<>>, renders |-> 0]
    /\ nKeys = 0
    /\ shown = NoShow
    /\ files = {}

\* the detector at rest
DetIdle ==
    /\ dpc = "start"
    /\ argv = <<>>
    /\ camOK = {}
    /\ requestedIndex = -1
    /\ cap = -1
    /\ g_signal_exit = 0
    /\ handlers = {}
    /\ pending = <<>>
    /\ frames = 0
    /\ windowOpen = FALSE
    /\ exitCode = -1
    /\ chk = NoCheck
    /\ loopExit = "none"
    /\ obs = NoObs

\* a run of the generator
GenSpecInit ==
    /\ GenInit /\ DetIdle /\ term = Terminal(LFlags, FALSE, TRUE)
    /\ calls = <<>> /\ ProbeInit /\ StatsInit

GenSpec == GenSpecInit /\ [][GenNext]_vars

\* a run of the detector
DetSpecInit == DetInit /\ GenIdle /\ calls = <<>> /\ ProbeInit /\ StatsInit

DetSpec == DetSpecInit /\ [][DetNext]_vars

\* the terminal helpers called in any order
TermSpecInit == TermInit /\ GenIdle /\ DetIdle /\ ProbeInit /\ StatsInit

TermNext == CallEnable \/ CallDisable

TermSpec == TermSpecInit /\ [][TermNext]_vars

\* isExitKey applied to any key
ExitKeySpecInit ==
    /\ ProbeInit /\ GenIdle /\ DetIdle /\ term = Terminal(LFlags, FALSE, TRUE)
    /\ calls = <<>> /\ StatsInit

ExitKeyNext == ProbeExitKey

ExitKeySpec == ExitKeySpecInit /\ [][ExitKeyNext]_vars

\* updateAvgMs applied to any sequence of frame latencies
FpsSpecInit ==
    /\ StatsInit /\ GenIdle /\ DetIdle /\ term = Terminal(LFlags, FALSE, TRUE)
    /\ calls = <<>> /\ ProbeInit

FpsNext == UpdateAvgMs

FpsSpec == FpsSpecInit /\ [][FpsNext]_vars

(***************************************************************************)
(* Properties                                                              *)
(***************************************************************************)
\* a step of the generator that polled a key >= 0
KeyPolled == nKeys' = nKeys + 1 /\ last'.key >= 0

\* C1: in every reachable State of the generator, scale is in 1..64,
\* quietZone in 0..16, version in 0..40 and eclIdx in 0..3.
C1_ParamsInRange ==
    /\ s.scale \in 1..64
    /\ s.quietZone \in 0..16
    /\ s.version \in 0..40
    /\ s.eclIdx \in 0..3

\* an "increase" key was polled with a parameter at its upper bound, after an
\* earlier key event of the run
C1_Witness ==
    /\ nKeys >= 2
    /\ last.act = "version+"
    /\ s.version = 40

\* C2: an "increase" key at the upper bound and a "decrease" key at the lower
\* bound leave the parameter unchanged; otherwise the key changes exactly
\* that parameter by exactly 1; no other field of State changes.
C2_Saturate ==
    [][KeyPolled =>
        LET ch == last'.key % 256
        IN  /\ ch \in {43, 61} =>
                s' = [s EXCEPT !.scale = IF @ = 64 THEN 64 ELSE @ + 1]
            /\ ch \in {45, 95} =>
                s' = [s EXCEPT !.scale = IF @ = 1 THEN 1 ELSE @ - 1]
            /\ ch \in {93, 125} =>
                s' = [s EXCEPT !.quietZone = IF @ = 16 THEN 16 ELSE @ + 1]
            /\ ch \in {91, 123} =>
                s' = [s EXCEPT !.quietZone = IF @ = 0 THEN 0 ELSE @ - 1]
            /\ ch = 86 =>
                s' = [s EXCEPT !.version = IF @ = 40 THEN 40 ELSE @ + 1]
            /\ ch = 118 =>
                s' = [s EXCEPT !.version = IF @ = 0 THEN 0 ELSE @ - 1]
            /\ ch = 69 =>
                s' = [s EXCEPT !.eclIdx = IF @ = 3 THEN 3 ELSE @ + 1]
            /\ ch = 101 =>
                s' = [s EXCEPT !.eclIdx = IF @ = 0 THEN 0 ELSE @ - 1]]_vars

\* 'e' was polled with the error correction level at L, after '+' or '=' was
\* polled with the scale at 1 and raised it to 2
C2_Witness ==
    /\ nKeys >= 2
    /\ last.key = 101
    /\ s.eclIdx = 0
    /\ s.scale = 2

\* C3: isExitKey(k) is true exactly for 27, 'q', 'Q', 'x', 'X', 'c', 'C', 3,
\* 4, 17 and 24; it is false for every k > 255 and every negative k.
C3_ExitKeys ==
    probe.n = 1 =>
        /\ probe.answer <=> probe.key \in {27, 113, 81, 120, 88, 99, 67, 3, 4, 17, 24}
        /\ (probe.key > 255 \/ probe.key < 0) => ~probe.answer

\* isExitKey was applied to 0xFF51 and answered false
C3_Witness == probe.n = 1 /\ probe.key = 65361 /\ ~probe.answer

C5_ReleasedOnEveryExit ==
    (dpc \in Terminated /\ obs.acquired >= 1) =>
        /\ ~term.term_raw_enabled
        /\ ~term.nonblock
        /\ term.lflag = term.initial
        /\ obs.released = 1

\* C6: whichever branch ended the main loop, the process goes on through
\* its cleanup and, once ended, has released the capture device, destroyed
\* the window, restored the terminal mode and returned 0.
C6_LoopExitCleansUp ==
    loopExit # "none" =>
        /\ dpc \in {"release", "destroy", "return", "done"}
        /\ dpc = "done" =>
              /\ exitCode = 0
              /\ cap = -1 /\ obs.capReleased = 1
              /\ ~windowOpen /\ obs.destroyed = 1
              /\ ~term.term_raw_enabled /\ ~term.nonblock
              /\ term.lflag = term.initial
              /\ obs.released = 1

\* the loop ended on the signal flag, on a terminal that started in its
\* usual mode, and the process has returned
C6_Witness ==
    /\ dpc = "done"
    /\ loopExit = "signal"
    /\ frames >= 1
    /\ "ECHO" \in term.initial

\* C7: the exit codes of the detector's command line: 2 for an argument that
\* is not numeric or whose value is neither 0 nor 1, 3 for a requested index
\* 0 or 1 that does not open, 1 with no argument and no camera, 0 for
\* --list; with no argument the first of 0, 1 that opens is used; on exit
\* codes 1, 2 and 3 no frame was read, and neither raw mode nor a signal
\* handler was installed.
C7_ExitCodes ==
    LET hasArg == Len(argv) >= 1
        arg == argv[1]
        isList == hasArg /\ arg = ListArg
        \* a string of digits whose value is 0 or 1: zeros, then 0 or 1
        zeroOrOne == /\ hasArg /\ arg # <<>>
                     /\ \A i \in 1..(Len(arg) - 1) : arg[i] = 48
                     /\ arg[Len(arg)] \in {48, 49}
        index == arg[Len(arg)] - 48
        ended == dpc \in {"done", "aborted"}
    IN  /\ (ended /\ isList) => exitCode = 0
        /\ (ended /\ hasArg /\ ~isList /\ ~zeroOrOne) => exitCode = 2
        /\ (ended /\ zeroOrOne /\ index \notin camOK) => exitCode = 3
        /\ (ended /\ ~hasArg /\ camOK = {}) => exitCode = 1
        /\ (dpc = "guard" /\ ~hasArg) =>
              cap = (IF 0 \in camOK THEN 0 ELSE 1)
        /\ exitCode \in {1, 2, 3} =>
              /\ frames = 0 /\ loopExit = "none"
              /\ obs.acquired = 0 /\ ~term.term_raw_enabled
              /\ handlers = {}

\* the last element of the calls of the terminal helpers
LastCall == calls[Len(calls)]

\* C8: enableRawTerminal right after enableRawTerminal changes neither the
\* terminal nor the saved attributes; disableRawTerminal when raw mode was
\* never enabled, or right after disableRawTerminal, changes nothing; and
\* a disable after the enables restores the attributes the terminal had.
C8_Idempotent ==
    /\ [][/\ (calls' = Append(calls, "enable") /\ calls # <<>> /\ LastCall = "enable")
              => term' = term
          /\ (calls' = Append(calls, "disable")
                /\ (\A i \in 1..Len(calls) : calls[i] = "disable"))
              => term' = term
          /\ (calls' = Append(calls, "disable") /\ calls # <<>> /\ LastCall = "disable")
              => term' = term]_vars
    /\ [](calls # <<>> /\ LastCall = "disable" => term.lflag = term.initial)

\* enable, enable, disable on a terminal that had ICANON and ECHO set: the
\* terminal has its original attributes again
C8_Witness ==
    /\ calls = <<"enable", "enable", "disable">>
    /\ {"ICANON", "ECHO"} \subseteq term.initial
    /\ term.lflag = term.initial

\* C9: the signal flag starts at 0, is only ever written by a delivery of a
\* signal whose handler is installed, which sets it to 1, is never reset,
\* and a delivery with the flag already set changes nothing of the program
\* (only the count of deliveries, which is no state of the program).
C9_FlagSetOnce ==
    /\ g_signal_exit = 0
    /\ [][/\ g_signal_exit = 1 => g_signal_exit' = 1
          /\ g_signal_exit' # g_signal_exit =>
                /\ obs'.sigs = obs.sigs + 1
                /\ handlers # {}
                /\ g_signal_exit' = 1
          /\ (obs'.sigs = obs.sigs + 1 /\ g_signal_exit = 1 /\ dpc' # "killed") =>
                UNCHANGED <<dpc, argv, camOK, requestedIndex, cap, term,
                            g_signal_exit, handlers, pending, frames, windowOpen,
                            exitCode, chk, loopExit>>]_vars

\* two signals were delivered to the installed handler
C9_Witness ==
    /\ obs.sigs >= 2
    /\ dpc # "killed"
    /\ g_signal_exit = 1
    /\ handlers = Signals

\* C10 as stated: every key whose normalized code is in 32..126 makes the
\* payload the old payload followed by that character.
C10_EveryPrintableAppends ==
    [][(KeyPolled /\ (last'.key % 256) \in 32..126) =>
          s'.text = Append(s.text, last'.key % 256)]_vars

\* C10 amended: every key whose normalized code is in 32..126 and is none of
\* q Q h H r R c C + = - _ [ { ] } e E v V s S makes the payload the old
\* payload followed by that character (those 22 codes are commands).
C10_PrintableNonCommandAppends ==
    [][(KeyPolled /\ (last'.key % 256) \in 32..126
          /\ (last'.key % 256) \notin
                {113, 81, 104, 72, 114, 82, 99, 67, 43, 61, 45, 95, 91, 123,
                 93, 125, 101, 69, 118, 86, 115, 83}) =>
          s'.text = Append(s.text, last'.key % 256)]_vars

\* the extended code 0x10041 was polled and 'A' is now the last character
\* of a payload of two or more characters
C10_Witness ==
    /\ last.key = 65601
    /\ Len(s.text) >= 2
    /\ s.text[Len(s.text)] = 65

\* C11: the encoder is never called with an empty payload: every render of
\* an empty payload, by the redraw block or by the save key, is the blank
\* placeholder and is made without a call of the encoder.
C11_EncoderNeverGetsEmpty ==
    /\ shown.enc => shown.of.text # <<>>
    /\ (shown.n >= 1 /\ shown.of.text = <<>>) =>
          /\ shown.kind = "blank"
          /\ ~shown.enc
          /\ shown.via \in {"redraw", "save"}

\* a payload of one character was emptied by backspace, the redraw block
\* drew the blank placeholder, and the save key rendered it again
C11_Witness ==
    /\ nKeys = 2
    /\ last.act = "save"
    /\ shown.via = "save"
    /\ shown.n = 3
    /\ shown.prev = "blank"
    /\ shown.kind = "blank"
    /\ s.text = <<>>

\* C12: a render in which the encoder fails shows the gray placeholder,
\* leaves State unchanged and leaves the loop running; the gray placeholder
\* stays only until the next render in which the encoder succeeds, which is
\* a normal render; and the program leaves the loop only by a quit key.
C12_EncoderFailureRecoverable ==
    /\ [][(shown'.n # shown.n /\ shown'.failed) =>
            /\ shown'.kind = "gray"
            /\ s' = s
            /\ gpc = "loop" /\ gpc' = "loop"]_vars
    /\ [][(shown'.n # shown.n /\ shown.kind = "gray" /\ ~shown'.failed
            /\ shown'.of.text # <<>>) => shown'.kind = "qr"]_vars
    /\ [](gpc # "loop" => last.act = "quit")

\* the encoder failed on the first render, backspace shortened the payload,
\* and the redraw that followed is a normal render
C12_Witness ==
    /\ shown.kind = "qr"
    /\ shown.prev = "gray"
    /\ shown.via = "redraw"
    /\ last.act = "backspace"
    /\ Len(s.text) + 1 = Len(last.before)

\* C13: after updateAvgMs(new) the smoothed latency is 0.98 * prev +
\* 0.02 * new (98/100 and 2/100 of the two, over the common denominator)
\* and lies between the smaller and the larger of prev and new.
C13_ConvexCombination ==
    [][stats'.n = stats.n + 1 =>
        LET prev == stats.avgMs
            new == stats'.frameMs
            avg == stats'.avgMs
            \* prev and new over the denominator of avg
            P == 100 * prev.num
            N == new * avg.den
        IN  /\ avg.den = 100 * prev.den
            /\ avg.num = 98 * prev.num + 2 * new * prev.den
            /\ (IF P < N THEN P ELSE N) <= avg.num
            /\ avg.num <= (IF P < N THEN N ELSE P)]_vars

\* two frames, the second one (1 ms) faster than the average before it, and
\* the new average strictly above it
C13_Witness ==
    /\ stats.n = 2
    /\ stats.frameMs = 1
    /\ stats.avgMs.num > stats.frameMs * stats.avgMs.den

\* the normalized code of the key a step polled
PolledCode == last'.key % 256

\* the step rendered and displayed by the save key
SavedNow == shown'.n = shown.n + 1 /\ shown'.via = "save"

\* the codes of the branches that assign a field of State: h H r R c C + =
\* - _ [ { ] } e E v V
AssignCodes ==
    {104, 72, 114, 82, 99, 67, 43, 61, 45, 95, 91, 123, 93, 125, 101, 69, 118, 86}

\* C14 as stated: every key event either changes State and sets needRedraw,
\* or saves without changing State, or ends the loop.
C14_MutateSaveOrExit ==
    [][KeyPolled =>
        \/ (s' # s /\ needRedraw')
        \/ (SavedNow /\ s' = s)
        \/ gpc' = "done"]_vars

\* C14 amended: every key event is one of four kinds, decided by its
\* normalized code:  (a) a branch that assigns a field of State sets
\* needRedraw, and State differs except where the field already held the
\* value (a parameter at its bound, clear of an empty payload, a random text
\* equal to the payload);  (b) the save key renders and writes, with State
\* and needRedraw unchanged;  (c) a quit key ends the loop;  (d) any other
\* code, and backspace or delete on an empty payload, changes nothing.
C14_MutateSaveExitOrNothing ==
    [][KeyPolled =>
        LET ch == PolledCode
            text == ch \in 32..126 /\ ch \notin AssignCodes \cup {113, 81, 115, 83}
            erase == ch \in {8, 127} /\ s.text # <<>>
        IN  /\ (ch \in AssignCodes \/ text \/ erase) =>
                  /\ needRedraw' /\ gpc' = "loop" /\ ~SavedNow /\ files' = files
                  /\ (ch \in {104, 72} \/ text \/ erase) => s' # s
                  /\ (ch \in {43, 61} /\ s.scale < 64) => s' # s
                  /\ (ch \in {45, 95} /\ s.scale > 1) => s' # s
                  /\ (ch \in {93, 125} /\ s.quietZone < 16) => s' # s
                  /\ (ch \in {91, 123} /\ s.quietZone > 0) => s' # s
                  /\ (ch = 69 /\ s.eclIdx < 3) => s' # s
                  /\ (ch = 101 /\ s.eclIdx > 0) => s' # s
                  /\ (ch = 86 /\ s.version < 40) => s' # s
                  /\ (ch = 118 /\ s.version > 0) => s' # s
                  /\ (ch \in {99, 67} /\ s.text # <<>>) => s' # s
            /\ ch \in {115, 83} =>
                  /\ SavedNow /\ files' # {}
                  /\ s' = s /\ needRedraw' = needRedraw /\ gpc' = "loop"
            /\ ch \in {27, 113, 81} =>
                  /\ gpc' = "done"
                  /\ s' = s /\ needRedraw' = needRedraw /\ ~SavedNow /\ files' = files
            /\ ~(ch \in AssignCodes \cup {115, 83, 27, 113, 81} \/ text \/ erase) =>
                  UNCHANGED <<s, needRedraw, gpc, shown, files>>]_vars

\* Enter (13), which no branch takes, was polled after an earlier key event
\* and changed nothing: the loop waits for the next key with no redraw due
C14_Witness ==
    /\ nKeys = 2
    /\ last.key = 13
    /\ last.act = "none"
    /\ gpc = "loop"
    /\ ~needRedraw

\* the effects a step had: the fields of State whose value changed, the
\* save side effect, and the end of the loop
Effects ==
    {f \in DOMAIN s : s'[f] # s[f]}
    \cup (IF SavedNow \/ files' # files THEN {"save"} ELSE {})
    \cup (IF gpc' # gpc THEN {"exit"} ELSE {})

\* C15: a key event applies one action only: it has at most one effect
\* (one field of State assigned, or the save, or the end of the loop), so a
\* printable command character is not also appended to the payload; and a
\* key whose normalized code matches no branch leaves State and needRedraw
\* unchanged and does not end the loop.
C15_OneActionPerKey ==
    [][KeyPolled =>
        LET ch == PolledCode
        IN  /\ Cardinality(Effects) <= 1
            /\ (ch \in AssignCodes \cup {113, 81, 115, 83} /\ ch \notin {114, 82, 99, 67})
                  => s'.text = s.text
            /\ (ch \notin 32..126 /\ ch \notin {27, 8, 127}) =>
                  /\ s' = s
                  /\ needRedraw' = needRedraw
                  /\ gpc' = "loop"
                  /\ Effects = {}]_vars

\* 'V' was polled on the default payload: the version went up to 1 and the
\* payload did not get a 'V' appended
C15_Witness ==
    /\ last.key = 86
    /\ last.act = "version+"
    /\ s.version = 1
    /\ s.text = HelloText
    /\ last.before = HelloText

\* C16: the save key leaves every field of State and needRedraw unchanged
\* and writes one file: at the -o / --output path when one was given, and
\* otherwise at qrcode_v<version>_ecl<L|M|Q|H>_sc<scale>_qz<quietZone>.png of
\* the current State; a save right after a save (so from an equal State)
\* writes to the path of the first.
C16_SaveKeepsStateAndNamesFile ==
    [][(KeyPolled /\ PolledCode \in {115, 83}) =>
        LET level == CASE s.eclIdx = 0 -> "L" [] s.eclIdx = 1 -> "M"
                       [] s.eclIdx = 2 -> "Q" [] OTHER -> "H"
            name == "qrcode_v" \o ToString(s.version) \o "_ecl" \o level \o "_sc"
                    \o ToString(s.scale) \o "_qz" \o ToString(s.quietZone) \o ".png"
            path == IF s.defaultOut # "" THEN s.defaultOut ELSE name
        IN  /\ s' = s
            /\ needRedraw' = needRedraw
            /\ files' = files \cup {path}
            /\ last.act = "save" => files' = files]_vars

\* the save key was polled twice on the default State with no output path:
\* the one file written is qrcode_v0_eclM_sc15_qz7.png
C16_Witness ==
    /\ nKeys = 2
    /\ last.act = "save"
    /\ shown.n = 3
    /\ s = DefaultState
    /\ files = {"qrcode_v0_eclM_sc15_qz7.png"}

\* the step rendered (by the redraw block or by the save key)
Rendered == shown'.n # shown.n

\* the redraw block ran since the key before was polled, that is, in the
\* iteration of the loop the step belongs to
RedrewThisIteration == shown.n > last.renders

\* C17 as stated: the loop renders only in an iteration where needRedraw
\* was set and clears the flag after it; it polls a key only while the flag
\* is false; a key that changes State sets the flag, so that what the window
\* shows whenever the loop waits is a render of the current State; and an
\* idle poll renders nothing.
C17_LazyRedraw ==
    /\ [][/\ Rendered => (needRedraw \/ RedrewThisIteration)
          /\ (Rendered /\ needRedraw) => ~needRedraw'
          /\ nKeys' # nKeys => ~needRedraw
          /\ (KeyPolled /\ s' # s) => needRedraw'
          /\ (nKeys' # nKeys /\ last'.key < 0) => ~Rendered]_vars
    /\ []((gpc = "loop" /\ ~needRedraw) => (shown.n >= 1 /\ shown.of = s))

\* C17 amended: the redraw block renders only when needRedraw is set and
\* clears the flag; the one other render is that of the save key, made of
\* the current State with the flag clear and left clear; the loop polls a
\* key only while the flag is false; a key that changes State sets the
\* flag, so that what the window shows whenever the loop waits is a render
\* of the current State; and an idle poll, like every key but save,
\* renders nothing.
C17_LazyRedrawButSave ==
    /\ [][/\ Rendered =>
                \/ (needRedraw /\ ~needRedraw' /\ shown'.via = "redraw"
                      /\ nKeys' = nKeys /\ shown'.of = s /\ s' = s)
                \/ (~needRedraw /\ ~needRedraw' /\ shown'.via = "save"
                      /\ KeyPolled /\ PolledCode \in {115, 83}
                      /\ shown'.of = s /\ s' = s)
          /\ nKeys' # nKeys => ~needRedraw
          /\ (KeyPolled /\ s' # s) => needRedraw'
          /\ (nKeys' # nKeys /\ (last'.key < 0 \/ PolledCode \notin {115, 83}))
                => ~Rendered]_vars
    /\ []((gpc = "loop" /\ ~needRedraw) => (shown.n >= 1 /\ shown.of = s))

\* a key appended a character and the redraw block rendered the new State
\* before the loop waited for the next key
C17_Witness ==
    /\ nKeys = 1
    /\ last.act = "append"
    /\ gpc = "loop"
    /\ ~needRedraw
    /\ shown.via = "redraw"
    /\ shown.n = 2
    /\ shown.of = s
    /\ s.text # last.before

\* C18: backspace or delete (8 or 127) on a non-empty payload removes its
\* last character, changes no other field of State and sets needRedraw; on
\* an empty payload it changes neither State nor needRedraw; and when the
\* key polled before it was appended as text, the payload is again what it
\* was before that key.
C18_Backspace ==
    [][(KeyPolled /\ PolledCode \in {8, 127}) =>
        /\ s.text # <<>> =>
              /\ Len(s'.text) = Len(s.text) - 1
              /\ \A i \in 1..Len(s'.text) : s'.text[i] = s.text[i]
              /\ s' = [s EXCEPT !.text = s'.text]
              /\ needRedraw'
        /\ s.text = <<>> => (s' = s /\ needRedraw' = needRedraw)
        /\ last.act = "append" => s'.text = last.before
        /\ gpc' = "loop"]_vars

\* a character was appended to the default payload and delete (127) took
\* it away again
C18_Witness ==
    /\ nKeys = 2
    /\ last.key = 127
    /\ last.act = "backspace"
    /\ Len(last.before) = Len(HelloText) + 1
    /\ s.text = HelloText
    /\ needRedraw

\* C19: a handled signal only sets the flag: it moves the program nowhere
\* and touches nothing else; the exit check evaluated with the flag set
\* ends the loop; so, from the moment the flag is set, at most one more
\* frame is read and at most one more frame is displayed.
C19_CooperativeCancel ==
    /\ [][/\ g_signal_exit' # g_signal_exit =>
                UNCHANGED <<dpc, argv, camOK, requestedIndex, cap, term, handlers,
                            pending, frames, windowOpen, exitCode, chk, loopExit>>
          /\ (dpc = "poll" /\ dpc' \notin {"poll", "killed"} /\ g_signal_exit = 1) =>
                (dpc' = "release" /\ loopExit' # "none")]_vars
    /\ [](g_signal_exit = 1 =>
            /\ obs.sigFrames >= 0
            /\ frames <= obs.sigFrames + 1
            /\ obs.shows <= obs.sigShows + 1)

\* the flag was set while the loop was about to read its second frame, with
\* a byte that is no exit key waiting: that frame was read and displayed,
\* and the exit check after it ended the loop on the flag
C19_Witness ==
    /\ loopExit = "signal"
    /\ obs.sigFrames = 1
    /\ frames = 2
    /\ obs.sigShows = 1
    /\ obs.shows = 2
    /\ chk.head = 97
    /\ dpc = "done"

\* C20: what a key event does depends on the low 8 bits of the key code
\* only: the step a key k >= 0 takes is the step the dispatch chain takes
\* for the code k mod 256, so 0xFF51 ends the loop like 'Q' and 0xFF52
\* replaces the payload by a random text like 'R'; isExitKey of the
\* detector answers false for the same extended codes.
C20_LowByteDecides ==
    /\ [][KeyPolled =>
            /\ \E seed \in 0..MaxSeed :
                  LET o == Dispatch(s, needRedraw, last'.key % 256, seed)
                  IN  /\ s' = o.s
                      /\ needRedraw' = o.needRedraw
                      /\ (gpc' = "done") = o.exit
                      /\ SavedNow = o.save
                      /\ last'.act = o.act
            /\ last'.key = 65361 => (gpc' = "done" /\ s' = s)
            /\ last'.key = 65362 =>
                  /\ gpc' = "loop" /\ needRedraw'
                  /\ Len(s'.text) \in 12..24
                  /\ s' = [s EXCEPT !.text = s'.text]]_vars
    /\ [](\A k \in {65361, 65362, 65288, 65505, 65601} : ~isExitKey(k))

\* the extended code 0xFF51 (left arrow) was polled as the second key of a
\* run and ended the loop like 'Q'
C20_Witness ==
    /\ nKeys = 2
    /\ last.key = 65361
    /\ last.act = "quit"
    /\ gpc = "done"

====
